---- MODULE Spec2Model ----
(***************************************************************************)
(* Model of anymail/backends/base.py: AnymailBaseBackend.__init__ (the     *)
(* merge of the send defaults), AnymailBaseBackend.send_messages (the      *)
(* batch loop and the per-message _send lifecycle) and                     *)
(* BasePayload.__init__ (the attribute rule table, the converters and the  *)
(* default setters).                                                       *)
(***************************************************************************)
EXTENDS Integers, Sequences, FiniteSets, TLC

(***************************************************************************)
(* Values.  Every Python value is a record [kind, v]; two values of the    *)
(* same kind have a v of the same shape.                                   *)
(***************************************************************************)
UNSET == [kind |-> "UNSET", v |-> <<>>]

Str(s) == [kind |-> "str", v |-> s]

Lazy(s) == [kind |-> "lazy", v |-> s]

List(items) == [kind |-> "list", v |-> items]

Dict(f) == [kind |-> "dict", v |-> f]

Bool(b) == [kind |-> "bool", v |-> b]

Alt(content, mimetype) == [kind |-> "alt", v |-> <<content, mimetype>>]

RawAttachment(name) == [kind |-> "rawattachment", v |-> name]

\* datetime(d, tz): tz = "naive" for a naive datetime
DateTime(d, t, tz) == [kind |-> "datetime", v |-> <<d, t, tz>>]

Date(d) == [kind |-> "date", v |-> d]

Timestamp(n) == [kind |-> "int", v |-> n]

(***************************************************************************)
(* anymail.utils                                                           *)
(***************************************************************************)
\* last(default, value): the message value overrides the default
last(default_value, value) ==
    IF value # UNSET THEN value ELSE default_value

\* combine(default, value): merge mappings, concatenate sequences
combine(default_value, value) ==
    IF value = UNSET THEN default_value
    ELSE IF default_value = UNSET THEN value
    ELSE IF default_value.kind = "dict" /\ value.kind = "dict"
         THEN Dict([k \in (DOMAIN default_value.v) \cup (DOMAIN value.v) |->
                      IF k \in DOMAIN value.v THEN value.v[k] ELSE default_value.v[k]])
    ELSE IF default_value.kind = "list" /\ value.kind = "list"
         THEN List(default_value.v \o value.v)
    ELSE value

force_non_lazy(value) ==
    IF value.kind = "lazy" THEN Str(value.v) ELSE value

force_non_lazy_list(value) ==
    IF value.kind = "list"
    THEN List([i \in 1..Len(value.v) |-> force_non_lazy(value.v[i])])
    ELSE value

force_non_lazy_dict(value) ==
    IF value.kind = "dict"
    THEN Dict([k \in DOMAIN value.v |-> force_non_lazy(value.v[k])])
    ELSE value

ParsedEmail(address, encoding) ==
    [kind |-> "ParsedEmail", v |-> <<force_non_lazy(address).v, encoding>>]

Attachment(attachment, encoding) ==
    [kind |-> "Attachment", v |-> <<attachment.v, encoding>>]

(***************************************************************************)
(* Environment of the converters (django.conf.settings, current timezone)  *)
(***************************************************************************)
DEFAULT_CHARSET == "utf-8"

CurrentTimezone == "+02:00"

\* datetime.utcfromtimestamp for the timestamps the model draws
UtcFromTimestamp(n) ==
    IF n = 0 THEN <<"1970-01-01", "00:00">> ELSE <<"1970-01-02", "00:00">>

(***************************************************************************)
(* BasePayload: rule table                                                 *)
(***************************************************************************)
Rule(attr, combiner, converter) ==
    [attr |-> attr, combiner |-> combiner, converter |-> converter]

\* mutant: the alternatives rule comes before the body rule
base_message_attrs_AlternativesFirst ==
    << Rule("from_email", "last", "parsed_email"),
       Rule("to", "combine", "parsed_emails"),
       Rule("cc", "combine", "parsed_emails"),
       Rule("bcc", "combine", "parsed_emails"),
       Rule("subject", "last", "force_non_lazy"),
       Rule("reply_to", "combine", "parsed_emails"),
       Rule("extra_headers", "combine", "force_non_lazy_dict"),
       Rule("alternatives", "combine", "prepped_alternatives"),
       Rule("body", "last", "force_non_lazy"),
       Rule("attachments", "combine", "prepped_attachments") >>

base_message_attrs ==
    << Rule("from_email", "last", "parsed_email"),
       Rule("to", "combine", "parsed_emails"),
       Rule("cc", "combine", "parsed_emails"),
       Rule("bcc", "combine", "parsed_emails"),
       Rule("subject", "last", "force_non_lazy"),
       Rule("reply_to", "combine", "parsed_emails"),
       Rule("extra_headers", "combine", "force_non_lazy_dict"),
       Rule("body", "last", "force_non_lazy"),
       Rule("alternatives", "combine", "prepped_alternatives"),
       Rule("attachments", "combine", "prepped_attachments") >>

anymail_message_attrs ==
    << Rule("metadata", "combine", "force_non_lazy_dict"),
       Rule("send_at", "last", "aware_datetime"),
       Rule("tags", "combine", "force_non_lazy_list"),
       Rule("track_clicks", "last", "None"),
       Rule("track_opens", "last", "None"),
       Rule("template_id", "last", "force_non_lazy"),
       Rule("merge_data", "combine", "force_non_lazy_dict"),
       Rule("merge_global_data", "combine", "force_non_lazy_dict"),
       Rule("esp_extra", "combine", "force_non_lazy_dict") >>

\* the rules of BasePayload itself; a provider appends its esp_message_attrs
message_attrs(provider) ==
    base_message_attrs \o anymail_message_attrs \o provider.esp_message_attrs

(***************************************************************************)
(* BasePayload: attribute converters                                       *)
(***************************************************************************)
parsed_email(address, message) == ParsedEmail(address, message.encoding)

parsed_emails(addresses, message) ==
    List([i \in 1..Len(addresses.v) |-> ParsedEmail(addresses.v[i], message.encoding)])

prepped_alternative(alt) ==
    Alt(force_non_lazy(alt.v[1]), alt.v[2])

prepped_alternatives(alternatives) ==
    List([i \in 1..Len(alternatives.v) |-> prepped_alternative(alternatives.v[i])])

prepped_attachments(attachments, message) ==
    LET str_encoding == IF message.encoding # "None" THEN message.encoding
                        ELSE DEFAULT_CHARSET
    IN List([i \in 1..Len(attachments.v) |-> Attachment(attachments.v[i], str_encoding)])

is_naive(dt) == dt.v[3] = "naive"

make_aware(dt, tz) == DateTime(dt.v[1], dt.v[2], tz)

aware_datetime(value) ==
    IF value.kind \notin {"datetime", "date", "int"}
    THEN value  \* TypeError/ValueError from utcfromtimestamp: returned unchanged
    ELSE LET dt == IF value.kind = "datetime" THEN value
                   ELSE IF value.kind = "date"
                        THEN DateTime(value.v, "00:00", "naive")
                        ELSE DateTime(UtcFromTimestamp(value.v)[1],
                                      UtcFromTimestamp(value.v)[2], "utc")
         IN IF is_naive(dt) THEN make_aware(dt, CurrentTimezone) ELSE dt

\* converter(value), the converter being a callable or the name of a method
Convert(converter, value, message) ==
    CASE converter = "parsed_email" -> parsed_email(value, message)
      [] converter = "parsed_emails" -> parsed_emails(value, message)
      [] converter = "force_non_lazy" -> force_non_lazy(value)
      [] converter = "force_non_lazy_list" -> force_non_lazy_list(value)
      [] converter = "force_non_lazy_dict" -> force_non_lazy_dict(value)
      [] converter = "prepped_alternatives" -> prepped_alternatives(value)
      [] converter = "prepped_attachments" -> prepped_attachments(value, message)
      [] converter = "aware_datetime" -> aware_datetime(value)
      [] OTHER -> value

(***************************************************************************)
(* BasePayload: methods.  A payload under construction is                  *)
(*   [calls: the method invocations made so far, exc: the exception        *)
(*    raised, or "none", attr: the attribute of the rule being processed]. *)
(* A call is [attr, name, arg, via]: via is "converter" for a converter,   *)
(* "rule" for the setter the rule loop calls, the recipient type for       *)
(* set_recipients/add_recipient, else the name of the calling method.      *)
(* backend is [provider, ignore_unsupported_features]; provider.implements *)
(* names the methods the provider's payload class overrides.               *)
(***************************************************************************)
Call(attr, name, arg, via) ==
    [attr |-> attr, name |-> name, arg |-> arg, via |-> via]

Called(st, name, arg, via) ==
    [st EXCEPT !.calls = Append(@, Call(st.attr, name, arg, via))]

Raise(st, e) == [st EXCEPT !.exc = e]

\* methods whose BasePayload body raises NotImplementedError
AbstractMethods ==
    {"init_payload", "set_from_email", "add_recipient", "set_subject",
     "set_text_body", "set_html_body", "add_attachment"}

\* methods whose BasePayload body is self.unsupported_feature(...)
UnsupportedByDefault ==
    {"set_reply_to", "set_extra_headers", "add_alternative", "set_metadata",
     "set_send_at", "set_tags", "set_track_clicks", "set_track_opens",
     "set_template_id", "set_merge_data", "set_merge_global_data",
     "set_esp_extra"}

\* methods whose BasePayload body delegates to other methods
DelegatingMethods ==
    {"set_to", "set_cc", "set_bcc", "set_recipients", "set_alternatives",
     "set_attachments"}

BasePayloadMethods ==
    AbstractMethods \cup UnsupportedByDefault \cup DelegatingMethods

\* mutant: permissive mode is not consulted
unsupported_feature_Strict(st, backend) == Raise(st, "AnymailUnsupportedFeature")

unsupported_feature(st, backend) ==
    IF ~backend.ignore_unsupported_features
    THEN Raise(st, "AnymailUnsupportedFeature")
    ELSE st

\* one invocation of a method that delegates to no other method
Invoke(st, name, arg, via, backend) ==
    IF st.exc # "none" THEN st
    ELSE LET st1 == Called(st, name, arg, via)
         IN IF name \in backend.provider.implements THEN st1
            ELSE IF name \in AbstractMethods THEN Raise(st1, "NotImplementedError")
            ELSE IF name \in UnsupportedByDefault THEN unsupported_feature(st1, backend)
            ELSE st1

RECURSIVE InvokeEach(_, _, _, _, _)
\* for item in items: self.<name>(item), stopping at the first exception
InvokeEach(st, names, items, via, backend) ==
    IF items = <<>> \/ st.exc # "none" THEN st
    ELSE InvokeEach(Invoke(st, Head(names), Head(items), via, backend),
                    Tail(names), Tail(items), via, backend)

set_recipients(st, recipient_type, emails, backend) ==
    IF st.exc # "none" THEN st
    ELSE LET st1 == Called(st, "set_recipients", emails, recipient_type)
         IN IF "set_recipients" \in backend.provider.implements THEN st1
            ELSE InvokeEach(st1, [i \in 1..Len(emails.v) |-> "add_recipient"],
                            emails.v, recipient_type, backend)

RecipientType(name) ==
    CASE name = "set_to" -> "to" [] name = "set_cc" -> "cc" [] OTHER -> "bcc"

\* mutant: set_alternatives hands every alternative to add_alternative
AlternativeMethod_NoHtml(alt) == "add_alternative"

AlternativeMethod(alt) ==
    IF alt.v[2] = "text/html" THEN "set_html_body" ELSE "add_alternative"

AlternativeArg(alt) ==
    IF alt.v[2] = "text/html" THEN alt.v[1] ELSE alt

set_alternatives(st, alternatives, backend) ==
    InvokeEach(st,
               [i \in 1..Len(alternatives.v) |-> AlternativeMethod(alternatives.v[i])],
               [i \in 1..Len(alternatives.v) |-> AlternativeArg(alternatives.v[i])],
               "set_alternatives", backend)

set_attachments(st, attachments, backend) ==
    InvokeEach(st, [i \in 1..Len(attachments.v) |-> "add_attachment"],
               attachments.v, "set_attachments", backend)

\* setter(value) for the setter the rule loop looked up
CallSetter(st, name, value, backend) ==
    IF name \in DelegatingMethods /\ name \notin backend.provider.implements
    THEN LET st1 == Called(st, name, value, "rule")
         IN CASE name \in {"set_to", "set_cc", "set_bcc"} ->
                     set_recipients(st1, RecipientType(name), value, backend)
              [] name = "set_alternatives" -> set_alternatives(st1, value, backend)
              [] name = "set_attachments" -> set_attachments(st1, value, backend)
              [] OTHER -> st1
    ELSE Invoke(st, name, value, "rule", backend)

(***************************************************************************)
(* BasePayload.__init__                                                    *)
(***************************************************************************)
getattr(message, attr) ==
    IF attr \in DOMAIN message.attrs THEN message.attrs[attr] ELSE UNSET

DefaultsGet(defaults, attr) ==
    IF attr \in DOMAIN defaults THEN defaults[attr] ELSE UNSET

Combiner(combiner, default_value, value) ==
    IF combiner = "combine" THEN combine(default_value, value)
    ELSE last(default_value, value)

\* mutant: the settings defaults are never looked up
CombinedValue_NoDefaults(rule, message, defaults) == getattr(message, rule.attr)

\* value after "if combiner is not None: value = combiner(default_value, value)"
CombinedValue(rule, message, defaults) ==
    IF rule.combiner # "None"
    THEN Combiner(rule.combiner, DefaultsGet(defaults, rule.attr),
                  getattr(message, rule.attr))
    ELSE getattr(message, rule.attr)

\* value after "if value is not UNSET: if converter is not None: ..."
ConvertedValue(rule, message, defaults) ==
    LET value == CombinedValue(rule, message, defaults)
    IN IF value # UNSET /\ rule.converter # "None"
       THEN Convert(rule.converter, value, message)
       ELSE value

\* mutant: the body rule looks its setter up by name like every other rule
SetterName_ByAttr(attr, message) == "set_" \o attr

SetterName(attr, message) ==
    IF attr = "body"
    THEN (IF message.content_subtype = "html" THEN "set_html_body" ELSE "set_text_body")
    ELSE "set_" \o attr

\* a value Python treats as false
IsFalsy(value) ==
    CASE value.kind \in {"list", "dict"} -> value.v = <<>>
      [] value.kind \in {"str", "lazy"} -> value.v = ""
      [] value.kind = "bool" -> ~value.v
      [] OTHER -> FALSE

\* mutant: "if value:" in place of "if value is not UNSET:", an empty value
\* is skipped like an unset one
ProcessRule_SkipsEmpty(st, rule, message, defaults, backend) ==
    IF st.exc # "none" THEN st
    ELSE LET st0 == [st EXCEPT !.attr = rule.attr]
             combined == CombinedValue(rule, message, defaults)
             skipped == combined = UNSET \/ IsFalsy(combined)
             value == IF skipped THEN UNSET ELSE ConvertedValue(rule, message, defaults)
             st1 == IF ~skipped /\ rule.converter # "None"
                    THEN Called(st0, rule.converter, combined, "converter")
                    ELSE st0
             setter == SetterName(rule.attr, message)
         IN IF value = UNSET THEN st1
            ELSE IF setter \notin BasePayloadMethods \cup backend.provider.implements
                 THEN Raise(st1, "AttributeError")
                 ELSE CallSetter(st1, setter, value, backend)

\* one iteration of "for attr, combiner, converter in message_attrs"
ProcessRule(st, rule, message, defaults, backend) ==
    IF st.exc # "none" THEN st
    ELSE LET st0 == [st EXCEPT !.attr = rule.attr]
             combined == CombinedValue(rule, message, defaults)
             value == ConvertedValue(rule, message, defaults)
             st1 == IF combined # UNSET /\ rule.converter # "None"
                    THEN Called(st0, rule.converter, combined, "converter")
                    ELSE st0
             setter == SetterName(rule.attr, message)
         IN IF value = UNSET THEN st1
            ELSE IF setter \notin BasePayloadMethods \cup backend.provider.implements
                 THEN Raise(st1, "AttributeError")
                 ELSE CallSetter(st1, setter, value, backend)

RECURSIVE ProcessRules(_, _, _, _, _)
ProcessRules(st, rules, message, defaults, backend) ==
    IF rules = <<>> THEN st
    ELSE ProcessRules(ProcessRule(st, Head(rules), message, defaults, backend),
                      Tail(rules), message, defaults, backend)

NewPayload == [calls |-> <<>>, exc |-> "none", attr |-> "init_payload"]

init_payload(backend) == Invoke(NewPayload, "init_payload", UNSET, "__init__", backend)

BasePayloadInit(message, defaults, backend) ==
    ProcessRules(init_payload(backend), message_attrs(backend.provider),
                 message, defaults, backend)

(***************************************************************************)
(* Bounds and input domains                                                *)
(***************************************************************************)
\* longest batch handed to send_messages
MaxBatch == 2

\* receivers connected to the post_send signal
NumReceivers == 2

Addresses == <<"a@example.com", "b@example.com">>

\* AnymailRecipientStatus.status vocabulary
ANYMAIL_STATUSES ==
    {"queued", "sent", "scheduled", "invalid", "rejected", "unknown", "failed"}

AllRules == base_message_attrs \o anymail_message_attrs

\* a provider-specific rule (esp_message_attrs of a provider's payload class)
EspRules == <<Rule("esp_option", "last", "None")>>

AttrNames ==
    {AllRules[i].attr : i \in 1..Len(AllRules)} \cup {EspRules[i].attr : i \in 1..Len(EspRules)}

\* a value of the type the attribute holds
SampleValue(attr) ==
    CASE attr \in {"from_email", "subject", "body", "template_id"} -> Str(attr)
      [] attr \in {"to", "cc", "bcc", "reply_to", "tags"} -> List(<<Str(attr)>>)
      [] attr \in {"extra_headers", "metadata", "merge_data", "merge_global_data",
                   "esp_extra"} -> Dict([k \in {"k"} |-> Str(attr)])
      [] attr = "alternatives" -> List(<<Alt(Str("alt"), "text/calendar")>>)
      [] attr = "attachments" -> List(<<RawAttachment("file")>>)
      [] attr = "send_at" -> Date("2024-03-01")
      [] OTHER -> Bool(TRUE)

\* an EmailMessage addressed to the first n of Addresses
MessageTo(n) ==
    [attrs |-> [a \in AttrNames |->
                  CASE a = "from_email" -> Str("from@example.com")
                    [] a = "to" -> List([i \in 1..n |-> Str(Addresses[i])])
                    [] a \in {"cc", "bcc"} -> List(<<>>)
                    [] a = "subject" -> Lazy("subject")
                    [] a = "body" -> Str("body")
                    [] OTHER -> UNSET],
     content_subtype |-> "plain",
     encoding |-> "None"]

WithAttr(m, attr, value) == [m EXCEPT !.attrs[attr] = value]

\* attributes whose BasePayload setter reports an unsupported feature
OptionalAttrs ==
    {"reply_to", "extra_headers", "alternatives", "metadata", "send_at", "tags",
     "track_clicks", "track_opens", "template_id", "merge_data",
     "merge_global_data", "esp_extra"}

\* the messages a batch is drawn from
Messages ==
    {MessageTo(n) : n \in 0..Len(Addresses)}
    \cup {WithAttr(MessageTo(1), a, SampleValue(a)) : a \in OptionalAttrs}

\* methods a provider written against the extension contract overrides
BackendMethods == {"build_message_payload", "post_to_esp", "parse_recipient_status"}

MinimalProvider ==
    [implements |-> AbstractMethods \cup BackendMethods, esp_message_attrs |-> <<>>]

\* a provider whose payload class forgot set_subject
NoSubjectProvider ==
    [implements |-> (AbstractMethods \ {"set_subject"}) \cup BackendMethods,
     esp_message_attrs |-> <<>>]

Providers == {MinimalProvider, NoSubjectProvider}

None == [kind |-> "None", v |-> <<>>]

\* (ANYMAIL SEND_DEFAULTS, ANYMAIL <ESP>_SEND_DEFAULTS) settings
Settings ==
    { <<Dict(<<>>), None>>,
      <<Dict([k \in {"tags"} |-> List(<<Str("default-tag")>>)]), None>> }


(***************************************************************************)
(* Input domains of the payload construction                               *)
(***************************************************************************)
\* a provider that supports every optional feature
FullProvider ==
    [implements |-> AbstractMethods \cup BackendMethods \cup UnsupportedByDefault,
     esp_message_attrs |-> <<>>]

\* a provider with a rule of its own and the setter for it
EspProvider ==
    [implements |-> AbstractMethods \cup BackendMethods \cup {"set_esp_option"},
     esp_message_attrs |-> EspRules]

\* a provider with a rule of its own whose payload class lacks the setter
NoSetterProvider ==
    [implements |-> AbstractMethods \cup BackendMethods,
     esp_message_attrs |-> EspRules]

PayloadProviders ==
    {MinimalProvider, NoSubjectProvider, FullProvider, EspProvider, NoSetterProvider}

HtmlAlt(s) == Alt(Str(s), "text/html")

\* the values a message may hold in an attribute, UNSET for an absent one
MessageValues(attr) ==
    {UNSET} \cup
    CASE attr \in {"from_email", "subject", "body", "template_id"} ->
             {Str(""), Str("text"), Lazy("lazy text")}
      [] attr \in {"to", "cc", "bcc", "reply_to", "tags"} ->
             {List(<<>>), List(<<Str("x@example.com")>>),
              List(<<Str("x@example.com"), Lazy("y@example.com")>>)}
      [] attr \in {"extra_headers", "metadata", "merge_data", "merge_global_data",
                   "esp_extra"} ->
             {Dict(<<>>), Dict([k \in {"k"} |-> Str("message")]),
              Dict([k \in {"k", "m"} |-> Lazy("message")])}
      [] attr = "alternatives" ->
             {List(<<>>), List(<<HtmlAlt("h1")>>),
              List(<<Alt(Lazy("cal"), "text/calendar")>>),
              List(<<HtmlAlt("h1"), HtmlAlt("h2")>>),
              List(<<HtmlAlt("h1"), Alt(Str("cal"), "text/calendar")>>),
              List(<<Alt(Str("cal"), "text/calendar"), HtmlAlt("h2")>>)}
      [] attr = "attachments" -> {List(<<>>), List(<<RawAttachment("file")>>)}
      [] attr = "send_at" ->
             {DateTime("2024-03-01", "12:00", "naive"),
              DateTime("2024-03-01", "12:00", "utc"),
              Date("2024-03-02"), Timestamp(0), Str("tomorrow")}
      [] OTHER -> {Bool(TRUE), Bool(FALSE)}

\* the values the settings may give as the default of an attribute
DefaultValues(attr) ==
    {UNSET} \cup
    CASE attr \in {"from_email", "subject", "body", "template_id"} -> {Str("default")}
      [] attr \in {"to", "cc", "bcc", "reply_to", "tags"} ->
             {List(<<Str("default@example.com")>>)}
      [] attr \in {"extra_headers", "metadata", "merge_data", "merge_global_data",
                   "esp_extra"} ->
             {Dict([k \in {"d", "k"} |-> Str("default")])}
      [] attr = "alternatives" -> {List(<<HtmlAlt("default")>>)}
      [] attr = "attachments" -> {List(<<RawAttachment("default")>>)}
      [] attr = "send_at" -> {Date("2024-03-01")}
      [] OTHER -> {Bool(FALSE)}

(***************************************************************************)
(* State                                                                   *)
(***************************************************************************)
VARIABLES
    fail_silently,               \* BaseEmailBackend.fail_silently
    ignore_unsupported_features, \* backend setting
    ignore_recipient_status,     \* backend setting
    settings,                    \* (SEND_DEFAULTS, <ESP>_SEND_DEFAULTS) of settings.ANYMAIL
    send_defaults,               \* self.send_defaults
    provider,                    \* what the concrete backend/payload classes override
    connection,                  \* the provider's cached connection: "closed" | "open"
    pc,                          \* position in send_messages / _send
    idx,                         \* messages taken from email_messages so far
    num_sent,                    \* send_messages: num_sent
    created_session,             \* send_messages: created_session
    message,                     \* the loop variable, with its anymail_status
    addressed,                   \* the recipients message had when send_messages got it
    payload,                     \* _send: payload
    exc,                         \* the exception propagating out of the loop
    result,                      \* how send_messages ended, and its return value
    open_returns,                \* what each call of self.open() returned
    pre_send_outcome,            \* run_pre_send: what pre_send.send did
    close_calls,                 \* calls of self.close()
    steps,                       \* the steps _send has taken for the loop variable
    hist,                        \* outcome of every message _send has finished with
    post_send_results,           \* run_post_send: results of send_robust
    rule_idx                     \* BasePayload.__init__: rules processed so far

vars ==
    <<fail_silently, ignore_unsupported_features, ignore_recipient_status,
      settings, send_defaults, provider, connection, pc, idx, num_sent, created_session,
      message, addressed, payload, exc, result, open_returns, pre_send_outcome,
      close_calls, steps, hist, post_send_results, rule_idx>>

config ==
    <<fail_silently, ignore_unsupported_features, ignore_recipient_status,
      settings, send_defaults, provider>>

(***************************************************************************)
(* AnymailBaseBackend.__init__                                             *)
(***************************************************************************)
\* mutant: the general layer is laid over the provider-specific one
MergeSendDefaults_GeneralWins(general, esp_send_defaults) ==
    IF esp_send_defaults # None
    THEN [k \in (DOMAIN general.v) \cup (DOMAIN esp_send_defaults.v) |->
            IF k \in DOMAIN general.v THEN general.v[k]
            ELSE esp_send_defaults.v[k]]
    ELSE general.v

\* lines 27-34: send_defaults.copy(); send_defaults.update(esp_send_defaults)
MergeSendDefaults(general, esp_send_defaults) ==
    IF esp_send_defaults # None
    THEN [k \in (DOMAIN general.v) \cup (DOMAIN esp_send_defaults.v) |->
            IF k \in DOMAIN esp_send_defaults.v THEN esp_send_defaults.v[k]
            ELSE general.v[k]]
    ELSE general.v

\* anymail.message.AnymailStatus(): status is None until has_status
AnymailStatus ==
    [attached |-> TRUE, esp_response |-> "None", recipients |-> <<>>,
     has_status |-> FALSE, status |-> {}]

\* a message no send has touched has no anymail_status attribute
NoStatus == [AnymailStatus EXCEPT !.attached = FALSE]

NoMessage ==
    [attrs |-> <<>>, content_subtype |-> "plain", encoding |-> "None",
     anymail_status |-> NoStatus]

Backend ==
    [provider |-> provider, ignore_unsupported_features |-> ignore_unsupported_features]

Init ==
    /\ fail_silently \in BOOLEAN
    /\ ignore_unsupported_features \in BOOLEAN
    /\ ignore_recipient_status \in BOOLEAN
    /\ settings \in Settings
    /\ send_defaults = MergeSendDefaults(settings[1], settings[2])
    /\ provider \in Providers
    /\ connection \in {"closed", "open"}
    /\ pc = "start"
    /\ idx = 0
    /\ num_sent = 0
    /\ created_session = FALSE
    /\ message = NoMessage
    /\ addressed = {}
    /\ payload = NewPayload
    /\ exc = "none"
    /\ result = [how |-> "running", value |-> 0]
    /\ open_returns = <<>>
    /\ pre_send_outcome = "none"
    /\ close_calls = 0
    /\ steps = <<>>
    /\ hist = <<>>
    /\ post_send_results = <<>>
    /\ rule_idx = 0

(***************************************************************************)
(* Helpers of the send loop                                                *)
(***************************************************************************)
\* exceptions derived from AnymailError
AnymailErrors ==
    {"AnymailUnsupportedFeature", "AnymailAPIError", "AnymailRecipientsRefused"}

ListItems(value) == IF value.kind = "list" THEN value.v ELSE <<>>

\* EmailMessage.recipients(): to + cc + bcc
recipients(m) ==
    ListItems(getattr(m, "to")) \o ListItems(getattr(m, "cc"))
        \o ListItems(getattr(m, "bcc"))

RecipientEmails(m) == {recipients(m)[i].v : i \in 1..Len(recipients(m))}

\* AnymailStatus.set_recipient_status(recipients)
set_recipient_status(anymail_status, recipient_status) ==
    [anymail_status EXCEPT
        !.recipients = recipient_status,
        !.has_status = TRUE,
        !.status = {recipient_status[e] : e \in DOMAIN recipient_status}]

\* what the caller can later read off a message _send has finished with
Entry(outcome, e, m, st) ==
    [outcome |-> outcome, exc |-> e, steps |-> st,
     attached |-> m.anymail_status.attached,
     esp_response |-> m.anymail_status.esp_response,
     has_status |-> m.anymail_status.has_status]

\* mutant: every message _send returned from is counted
Counted_Always(sent, n) == n + 1

\* "if sent: num_sent += 1"
Counted(sent, n) == IF sent THEN n + 1 ELSE n

\* mutant: the except clause always re-raises
Suppressed_Never(e) == FALSE

\* mutant: a bare except, suppressing whatever was raised
Suppressed_Everything(e) == fail_silently

\* mutant: the except clause swallows every AnymailError, fail_silently or not
Suppressed_Always(e) == e \in AnymailErrors

\* "except AnymailError: if self.fail_silently: sent = False else: raise"
Suppressed(e) == e \in AnymailErrors /\ fail_silently

\* _send returned sent
SendReturns(sent, m, st) ==
    /\ num_sent' = Counted(sent, num_sent)
    /\ hist' = Append(hist, Entry(IF sent THEN "sent" ELSE "not_sent", "none", m, st))
    /\ message' = m
    /\ steps' = st
    /\ pc' = "loop"
    /\ exc' = exc

\* _send raised e
SendRaises(e, m, st) ==
    /\ message' = m
    /\ steps' = st
    /\ num_sent' = Counted(FALSE, num_sent)
    /\ IF Suppressed(e)
       THEN /\ hist' = Append(hist, Entry("suppressed", e, m, st))
            /\ pc' = "loop"
            /\ exc' = exc
       ELSE /\ hist' = Append(hist, Entry("raised", e, m, st))
            /\ pc' = "finally"
            /\ exc' = e

(***************************************************************************)
(* AnymailBaseBackend.send_messages                                        *)
(***************************************************************************)
\* "if not email_messages: return num_sent"
SendMessagesEmpty ==
    /\ pc = "start"
    /\ pc' = "done"
    /\ result' = [how |-> "returned", value |-> num_sent]
    /\ UNCHANGED <<config, connection, idx, num_sent, created_session, message,
                   addressed, payload, exc, open_returns, pre_send_outcome,
                   close_calls, steps, hist, post_send_results, rule_idx>>

\* open(): True iff this call initialised the cached connection
OpenResult == connection = "closed"

\* "created_session = self.open()" for a non-empty batch
Open ==
    /\ pc = "start"
    /\ created_session' = OpenResult
    /\ connection' = "open"
    /\ open_returns' = Append(open_returns, OpenResult)
    /\ pc' = "loop"
    /\ UNCHANGED <<config, idx, num_sent, message, addressed, payload, exc, result,
                   pre_send_outcome, close_calls, steps, hist, post_send_results,
                   rule_idx>>

\* "for message in email_messages" takes the next message;
\* _send: "message.anymail_status = AnymailStatus()"
NextMessage ==
    /\ pc = "loop"
    /\ idx < MaxBatch
    /\ \E m \in Messages :
         /\ message' = [attrs |-> m.attrs, content_subtype |-> m.content_subtype,
                        encoding |-> m.encoding, anymail_status |-> AnymailStatus]
         /\ addressed' = RecipientEmails(m)
    /\ idx' = idx + 1
    /\ steps' = <<"status_reset">>
    /\ payload' = NewPayload
    /\ post_send_results' = <<>>
    /\ pre_send_outcome' = "none"
    /\ pc' = "pre_send"
    /\ UNCHANGED <<config, connection, num_sent, created_session, exc, result,
                   open_returns, close_calls, hist, rule_idx>>

\* the loop is exhausted (the batch was not empty)
EndOfBatch ==
    /\ pc = "loop"
    /\ idx >= 1
    /\ pc' = "finally"
    /\ UNCHANGED <<config, connection, idx, num_sent, created_session, message,
                   addressed, payload, exc, result, open_returns, pre_send_outcome,
                   close_calls, steps, hist, post_send_results, rule_idx>>

\* mutant: the finally clause closes whatever open() returned
ShouldClose_Always == TRUE

\* "if created_session: self.close()"
ShouldClose == created_session

\* the finally clause, then "return num_sent" or the exception leaves
Finally ==
    /\ pc = "finally"
    /\ IF ShouldClose
       THEN /\ close_calls' = close_calls + 1
            /\ connection' = "closed"
       ELSE UNCHANGED <<close_calls, connection>>
    /\ result' = IF exc = "none" THEN [how |-> "returned", value |-> num_sent]
                 ELSE [how |-> "raised", value |-> 0]
    /\ pc' = "done"
    /\ UNCHANGED <<config, idx, num_sent, created_session, message, addressed,
                   payload, exc, open_returns, pre_send_outcome, steps, hist,
                   post_send_results, rule_idx>>

(***************************************************************************)
(* AnymailBaseBackend._send                                                *)
(***************************************************************************)
\* mutant: the status check follows the parse at once, post_send is not sent
StepAfter_NoPostSend(step) ==
    CASE step = "pre_send" -> "recipients"
      [] step = "recipients" -> "build"
      [] step = "build" -> "post"
      [] step = "post" -> "parse"
      [] step = "parse" -> "status_check"
      [] OTHER -> "status_check"

\* mutant: the payload is built before the recipients are looked at
StepAfter_BuildFirst(step) ==
    CASE step = "pre_send" -> "build"
      [] step = "build" -> "recipients"
      [] step = "recipients" -> "post"
      [] step = "post" -> "parse"
      [] step = "parse" -> "post_send"
      [] OTHER -> "status_check"

\* the statement of _send that follows a step that neither returned nor raised
StepAfter(step) ==
    CASE step = "pre_send" -> "recipients"
      [] step = "recipients" -> "build"
      [] step = "build" -> "post"
      [] step = "post" -> "parse"
      [] step = "parse" -> "post_send"
      [] OTHER -> "status_check"

loop_frame ==
    <<config, connection, idx, created_session, addressed, result, open_returns,
      close_calls, rule_idx>>

\* what pre_send.send(...) may do: return, return after a receiver modified
\* the message, or let a receiver's exception out
PreSendOutcomes == {"ok", "modified", "AnymailCancelSend", "ReceiverError"}

\* the message after a receiver that redirects every mail to one address
Redirected(m) ==
    [m EXCEPT !.attrs = [a \in DOMAIN m.attrs |->
                            CASE a = "to" -> List(<<Str("hook@example.com")>>)
                              [] a \in {"cc", "bcc"} -> List(<<>>)
                              [] OTHER -> m.attrs[a]]]

\* "self.run_pre_send(message)  # (might modify message)"
AfterPreSend(outcome, m) == IF outcome = "modified" THEN Redirected(m) ELSE m

\* mutant: AnymailCancelSend is swallowed and the send goes on
run_pre_send_IgnoresCancel(outcome) == TRUE

\* run_pre_send's return value when pre_send.send returned or a receiver
\* raised AnymailCancelSend
run_pre_send(outcome) == outcome # "AnymailCancelSend"

\* "if not self.run_pre_send(message): return False"
RunPreSend ==
    /\ pc = "pre_send"
    /\ \E outcome \in PreSendOutcomes :
         /\ pre_send_outcome' = outcome
         /\ LET st == Append(steps, "pre_send")
            IN IF outcome = "ReceiverError"
               THEN SendRaises(outcome, message, st)
               ELSE IF ~run_pre_send(outcome)
               THEN SendReturns(FALSE, message, st)
               ELSE /\ pc' = StepAfter("pre_send")
                    /\ steps' = st
                    /\ message' = AfterPreSend(outcome, message)
                    /\ UNCHANGED <<num_sent, hist, exc>>
    /\ UNCHANGED <<loop_frame, payload, post_send_results>>

\* mutant: the recipient check is missing
HasNoRecipients_Never(m) == FALSE

\* "not message.recipients()"
HasNoRecipients(m) == recipients(m) = <<>>

\* "if not message.recipients(): return False"
CheckRecipients ==
    /\ pc = "recipients"
    /\ LET st == Append(steps, "recipients")
       IN IF HasNoRecipients(message)
          THEN SendReturns(FALSE, message, st)
          ELSE /\ pc' = StepAfter("recipients")
               /\ steps' = st
               /\ UNCHANGED <<message, num_sent, hist, exc>>
    /\ UNCHANGED <<loop_frame, payload, post_send_results, pre_send_outcome>>

\* "payload = self.build_message_payload(message, self.send_defaults)"
BuildMessagePayload ==
    /\ pc = "build"
    /\ LET st == Append(steps, "build")
           built == IF "build_message_payload" \in provider.implements
                    THEN BasePayloadInit(message, send_defaults, Backend)
                    ELSE Raise(NewPayload, "NotImplementedError")
       IN /\ payload' = built
          /\ IF built.exc # "none"
             THEN SendRaises(built.exc, message, st)
             ELSE /\ pc' = StepAfter("build")
                  /\ steps' = st
                  /\ UNCHANGED <<message, num_sent, hist, exc>>
    /\ UNCHANGED <<loop_frame, post_send_results, pre_send_outcome>>

\* mutant: the response is not stored on the message
AttachResponse_Dropped(m, response) == m

\* "message.anymail_status.esp_response = response"
AttachResponse(m, response) ==
    [m EXCEPT !.anymail_status.esp_response = response]

\* "response = self.post_to_esp(payload, message)", then the response is attached
PostToEsp ==
    /\ pc = "post"
    /\ \E outcome \in {"response", "AnymailAPIError"} :
         LET st == Append(steps, "post")
         IN IF "post_to_esp" \notin provider.implements
            THEN SendRaises("NotImplementedError", message, st)
            ELSE IF outcome = "AnymailAPIError"
            THEN SendRaises(outcome, message, st)
            ELSE /\ message' = AttachResponse(message, outcome)
                 /\ pc' = StepAfter("post")
                 /\ steps' = st
                 /\ UNCHANGED <<num_sent, hist, exc>>
    /\ UNCHANGED <<loop_frame, payload, post_send_results, pre_send_outcome>>

\* what a provider's parse_recipient_status may return: a status for each recipient
ParseResults(m) == [RecipientEmails(m) -> ANYMAIL_STATUSES]

\* mutant: the parsed statuses are not stored on the message
AttachRecipientStatus_Dropped(m, recipient_status) == m

\* "message.anymail_status.set_recipient_status(recipient_status)"
AttachRecipientStatus(m, recipient_status) ==
    [m EXCEPT !.anymail_status = set_recipient_status(@, recipient_status)]

\* "recipient_status = self.parse_recipient_status(response, payload, message)",
\* then the statuses are attached
ParseRecipientStatus ==
    /\ pc = "parse"
    /\ LET st == Append(steps, "parse")
       IN IF "parse_recipient_status" \notin provider.implements
          THEN SendRaises("NotImplementedError", message, st)
          ELSE \/ SendRaises("AnymailAPIError", message, st)
               \/ \E recipient_status \in ParseResults(message) :
                    /\ message' = AttachRecipientStatus(message, recipient_status)
                    /\ pc' = StepAfter("parse")
                    /\ steps' = st
                    /\ UNCHANGED <<num_sent, hist, exc>>
    /\ UNCHANGED <<loop_frame, payload, post_send_results, pre_send_outcome>>

\* mutant: the last response that is an Exception is the one raised
FirstRaised_Last(results) ==
    IF \E i \in 1..Len(results) : results[i] # "ok"
    THEN CHOOSE i \in 1..Len(results) :
            /\ results[i] # "ok"
            /\ \A j \in (i + 1)..Len(results) : results[j] = "ok"
    ELSE 0

\* the first response that is an Exception, in receiver order; 0 if none
FirstRaised(results) ==
    IF \E i \in 1..Len(results) : results[i] # "ok"
    THEN CHOOSE i \in 1..Len(results) :
            /\ results[i] # "ok"
            /\ \A j \in 1..(i - 1) : results[j] = "ok"
    ELSE 0

\* the exception receiver i raises, when it raises
ReceiverError(i) == "ReceiverError" \o ToString(i)

ReceiverResponses(i) == {"ok", ReceiverError(i)}

\* run_post_send: post_send.send_robust(...) calls every receiver and returns
\* each one's response; the first Exception among them is raised
RunPostSend ==
    /\ pc = "post_send"
    /\ \E results \in [1..NumReceivers ->
                          UNION {ReceiverResponses(i) : i \in 1..NumReceivers}] :
         /\ \A i \in 1..NumReceivers : results[i] \in ReceiverResponses(i)
         /\ post_send_results' = results
         /\ LET st == Append(steps, "post_send")
            IN IF FirstRaised(results) # 0
               THEN SendRaises(results[FirstRaised(results)], message, st)
               ELSE /\ pc' = StepAfter("post_send")
                    /\ steps' = st
                    /\ UNCHANGED <<message, num_sent, hist, exc>>
    /\ UNCHANGED <<loop_frame, payload, pre_send_outcome>>

\* mutant: any refused recipient raises, instead of all
RecipientsRefused_Any(anymail_status) ==
    /\ ~ignore_recipient_status
    /\ anymail_status.status \cap {"invalid", "rejected"} # {}

\* raise_for_recipient_status: whether AnymailRecipientsRefused is raised
RecipientsRefused(anymail_status) ==
    /\ ~ignore_recipient_status
    /\ anymail_status.status \subseteq {"invalid", "rejected"}

\* "self.raise_for_recipient_status(...)"; "return True"
RaiseForRecipientStatus ==
    /\ pc = "status_check"
    /\ LET st == Append(steps, "status_check")
       IN IF RecipientsRefused(message.anymail_status)
          THEN SendRaises("AnymailRecipientsRefused", message, st)
          ELSE SendReturns(TRUE, message, st)
    /\ UNCHANGED <<loop_frame, payload, post_send_results, pre_send_outcome>>

Next ==
    \/ SendMessagesEmpty
    \/ Open
    \/ NextMessage
    \/ EndOfBatch
    \/ Finally
    \/ RunPreSend
    \/ CheckRecipients
    \/ BuildMessagePayload
    \/ PostToEsp
    \/ ParseRecipientStatus
    \/ RunPostSend
    \/ RaiseForRecipientStatus

Spec == Init /\ [][Next]_vars

(***************************************************************************)
(* Properties                                                              *)
(***************************************************************************)
\* _send has finished with the loop variable
MessageFinished == pc \in {"loop", "finally", "done"} /\ idx >= 1 /\ Len(hist) = idx

LastEntry == hist[Len(hist)]

\* the entry of a message that went through every step and was reported sent
Finalized(e) == e.exc = "none" /\ e.steps[Len(e.steps)] = "status_check"

NumFinalized == Cardinality({i \in DOMAIN hist : Finalized(hist[i])})

SessionReleasedIffCreated ==
    close_calls = (IF open_returns[1] THEN 1 ELSE 0)

\* C1: for a non-empty batch open() is called exactly once, before the first
\* message; close() is called only after the last processed message, exactly
\* once if open() returned True and never if it returned False, whether
\* send_messages returns or raises; for an empty batch neither is called.
C1_SessionLifecycle ==
    /\ Len(open_returns) <= 1
    /\ (idx >= 1 \/ pc \in {"loop", "finally"}) => Len(open_returns) = 1
    /\ pc # "done" => close_calls = 0
    /\ (pc = "done" /\ idx >= 1) => SessionReleasedIffCreated
    /\ (pc = "done" /\ idx = 0) => (open_returns = <<>> /\ close_calls = 0)

C1_Witness ==
    /\ pc = "done"
    /\ result.how = "raised"
    /\ Len(hist) = 2
    /\ open_returns = <<TRUE>>
    /\ close_calls = 1

\* C2: a message with no recipients at the recipient check is reported not
\* sent, with no error, no payload built and no transport call, and the loop
\* goes on.
C2_NoRecipients ==
    /\ pc \in {"build", "post", "parse", "post_send", "status_check"}
          => recipients(message) # <<>>
    /\ (Len(steps) >= 3 /\ steps[3] = "recipients" /\ recipients(message) = <<>>)
          => /\ steps = <<"status_reset", "pre_send", "recipients">>
             /\ MessageFinished
             /\ LastEntry.outcome = "not_sent"
             /\ LastEntry.exc = "none"
             /\ payload = NewPayload
             /\ message.anymail_status.esp_response = "None"
             /\ exc = "none"
             /\ num_sent = NumFinalized

C2_Witness ==
    /\ Len(hist) = 2
    /\ hist[1].steps = <<"status_reset", "pre_send", "recipients">>
    /\ hist[1].outcome = "not_sent"
    /\ hist[2].outcome = "sent"

\* C3: when a pre_send receiver raises AnymailCancelSend the message is
\* reported not sent with no error; no payload is built, nothing is
\* dispatched or parsed, post_send does not run, the status check does not
\* run, the message is not counted, and the loop goes on.
C3_CancelSend ==
    pre_send_outcome = "AnymailCancelSend"
        => /\ steps = <<"status_reset", "pre_send">>
           /\ MessageFinished
           /\ LastEntry.outcome = "not_sent"
           /\ LastEntry.exc = "none"
           /\ payload = NewPayload
           /\ message.anymail_status.esp_response = "None"
           /\ ~message.anymail_status.has_status
           /\ post_send_results = <<>>
           /\ exc = "none"
           /\ num_sent = NumFinalized

C3_Witness ==
    /\ Len(hist) = 2
    /\ hist[1].steps = <<"status_reset", "pre_send">>
    /\ hist[1].outcome = "not_sent"
    /\ hist[2].outcome = "sent"
    /\ num_sent = 1

AllRefused(m) == m.anymail_status.status \subseteq {"invalid", "rejected"}

\* what C4 says of a finished message whose response was parsed
StatusEscalation ==
    IF AllRefused(message) /\ ~ignore_recipient_status
    THEN /\ LastEntry.exc = "AnymailRecipientsRefused"
         /\ LastEntry.outcome # "sent"
    ELSE /\ LastEntry.exc = "none"
         /\ LastEntry.outcome = "sent"
         /\ LastEntry.has_status

\* C4 as stated: once the response is parsed, all recipients refused raises
\* AnymailRecipientsRefused unless ignore_recipient_status, and otherwise the
\* message is reported sent.
C4_AsStated ==
    (MessageFinished /\ message.anymail_status.has_status) => StatusEscalation

PostSendPassed ==
    /\ post_send_results # <<>>
    /\ \A i \in DOMAIN post_send_results : post_send_results[i] = "ok"

\* C4 (amended): once the response is parsed and no post_send receiver has
\* raised, all recipients refused raises AnymailRecipientsRefused unless
\* ignore_recipient_status, and otherwise the message is reported sent with
\* its status attached.
C4_StatusEscalation ==
    (MessageFinished /\ message.anymail_status.has_status /\ PostSendPassed)
        => StatusEscalation

C4_Witness ==
    /\ MessageFinished
    /\ PostSendPassed
    /\ message.anymail_status.status = {"invalid", "rejected"}
    /\ ~ignore_recipient_status
    /\ LastEntry.exc = "AnymailRecipientsRefused"

\* C5: with fail_silently an AnymailError raised for a message is swallowed:
\* the message is not counted, the loop goes on, and no AnymailError leaves
\* send_messages.
C5_FailSilently ==
    fail_silently
        => /\ \A i \in DOMAIN hist :
                hist[i].exc \in AnymailErrors
                    => /\ hist[i].outcome = "suppressed"
                       /\ ~Finalized(hist[i])
                       /\ (i = idx => (pc = "loop" \/ exc = "none"))
           /\ exc \notin AnymailErrors
           /\ num_sent = NumFinalized
           /\ (pc = "done" /\ exc = "none")
                 => result = [how |-> "returned", value |-> num_sent]

C5_Witness ==
    /\ fail_silently
    /\ pc = "done"
    /\ Len(hist) = 2
    /\ hist[1].exc = "AnymailAPIError"
    /\ hist[2].outcome = "sent"
    /\ result = [how |-> "returned", value |-> 1]

\* C6: an exception that is not an AnymailError leaves send_messages whatever
\* fail_silently is, and the session is closed iff this call opened it.
C6_OtherErrorsPropagate ==
    /\ \A i \in DOMAIN hist :
          hist[i].exc \notin AnymailErrors \cup {"none"}
              => /\ hist[i].outcome = "raised"
                 /\ i = Len(hist)
                 /\ pc \in {"finally", "done"}
                 /\ exc = hist[i].exc
    /\ (pc = "done" /\ exc \notin AnymailErrors \cup {"none"})
          => /\ result.how = "raised"
             /\ SessionReleasedIffCreated

C6_Witness ==
    /\ fail_silently
    /\ pc = "done"
    /\ exc = "NotImplementedError"
    /\ result.how = "raised"
    /\ open_returns = <<TRUE>>
    /\ close_calls = 1

\* C7: the count send_messages returns is the number of messages that went
\* through every step of _send; it lies between 0 and the batch length, and
\* is 0 for an empty batch.
C7_SentCount ==
    /\ result.how = "returned"
          => /\ result.value = NumFinalized
             /\ Len(hist) = idx
             /\ 0 <= result.value /\ result.value <= idx
    /\ (pc = "done" /\ idx = 0) => result = [how |-> "returned", value |-> 0]

C7_Witness ==
    /\ result = [how |-> "returned", value |-> 1]
    /\ Len(hist) = 2
    /\ hist[1].outcome = "sent"
    /\ hist[2].outcome = "not_sent"

StepsHave(st, name) == \E i \in DOMAIN st : st[i] = name

\* C8 as stated: when send_messages has ended every processed message
\* carries a status holding the raw response and the per-recipient statuses,
\* whatever its outcome.
C8_AsStated ==
    pc = "done"
        => \A i \in DOMAIN hist :
              /\ hist[i].attached
              /\ hist[i].esp_response # "None"
              /\ hist[i].has_status

\* C8 (amended): every processed message carries an attached status,
\* whatever its outcome; the status holds the raw response exactly when
\* post_to_esp returned one, and the per-recipient statuses exactly when
\* parse_recipient_status returned them.
C8_StatusAttached ==
    /\ \A i \in DOMAIN hist :
          /\ hist[i].attached
          /\ hist[i].esp_response # "None" <=> StepsHave(hist[i].steps, "parse")
          /\ hist[i].has_status <=> StepsHave(hist[i].steps, "post_send")
    /\ idx >= 1 => message.anymail_status.attached

C8_Witness ==
    /\ pc = "done"
    /\ Len(hist) = 2
    /\ hist[1].outcome = "not_sent"
    /\ hist[1].attached /\ hist[1].esp_response = "None"
    /\ hist[2].outcome = "suppressed"
    /\ hist[2].esp_response # "None" /\ ~hist[2].has_status

RuleOf(attr) == AllRules[CHOOSE i \in 1..Len(AllRules) : AllRules[i].attr = attr]

HasNonHtmlAlternative(value) ==
    /\ value.kind = "list"
    /\ \E i \in 1..Len(value.v) : value.v[i].v[2] # "text/html"

\* the attributes of m (or of the defaults) that end in unsupported_feature
DroppedAttrs(m) ==
    {a \in OptionalAttrs :
        /\ (getattr(m, a) # UNSET \/ a \in DOMAIN send_defaults)
        /\ LET value == CombinedValue(RuleOf(a), m, send_defaults)
           IN /\ value # UNSET
              /\ IF a = "alternatives"
                 THEN /\ {"set_alternatives", "add_alternative"}
                            \cap provider.implements = {}
                      /\ HasNonHtmlAlternative(value)
                 ELSE ("set_" \o a) \notin provider.implements}

IsHtmlAlternative(alt) == alt.v[2] = "text/html"

\* value without what DroppedAttrs names in it
StripValue(a, value, dropped) ==
    IF a \notin dropped \/ value = UNSET THEN value
    ELSE IF a = "alternatives" THEN List(SelectSeq(value.v, IsHtmlAlternative))
    ELSE UNSET

StripMessage(m, dropped) ==
    [m EXCEPT !.attrs = [a \in DOMAIN m.attrs |-> StripValue(a, m.attrs[a], dropped)]]

StripDefaults(defaults, dropped) ==
    [a \in DOMAIN defaults |-> StripValue(a, defaults[a], dropped)]

\* the calls that reached methods the provider implements
ProviderCalls(p) ==
    LET Implemented(c) == c.name \in provider.implements
    IN SelectSeq(p.calls, Implemented)

ConformingProvider == (AbstractMethods \cup BackendMethods) \subseteq provider.implements

\* C9: when the message or the defaults give a value to an attribute whose
\* setter is the inherited one, a provider that implements the required
\* operations raises AnymailUnsupportedFeature from the payload build and
\* nothing is dispatched, unless ignore_unsupported_features is on: then no
\* error is raised, the provider receives exactly the calls it would receive
\* without the attribute, and the send goes on to dispatch.
C9_UnsupportedFeature ==
    (/\ Len(steps) >= 4 /\ steps[4] = "build"
     /\ ConformingProvider
     /\ DroppedAttrs(message) # {})
        => IF ~ignore_unsupported_features
           THEN /\ payload.exc = "AnymailUnsupportedFeature"
                /\ steps = <<"status_reset", "pre_send", "recipients", "build">>
                /\ MessageFinished
                /\ LastEntry.exc = "AnymailUnsupportedFeature"
                /\ LastEntry.outcome # "sent"
                /\ message.anymail_status.esp_response = "None"
           ELSE /\ payload.exc = "none"
                /\ (pc = "post" \/ Len(steps) >= 5)
                \* the payload is not touched after the build: compared once
                /\ pc = "post" =>
                      LET dropped == DroppedAttrs(message)
                      IN ProviderCalls(payload) =
                            ProviderCalls(BasePayloadInit(
                                StripMessage(message, dropped),
                                StripDefaults(send_defaults, dropped),
                                Backend))

C9_Witness ==
    /\ ignore_unsupported_features
    /\ DroppedAttrs(message) = {"metadata", "tags"}
    /\ MessageFinished
    /\ LastEntry.outcome = "sent"

(***************************************************************************)
(* BasePayload.__init__, one rule at a time: the message, the defaults and *)
(* the provider are drawn by InitPayload.                                  *)
(***************************************************************************)
InitPayload ==
    /\ fail_silently = FALSE
    /\ ignore_unsupported_features \in BOOLEAN
    /\ ignore_recipient_status = FALSE
    /\ provider \in PayloadProviders
    /\ \E a \in AttrNames, subtype \in {"plain", "html"} :
         \E mv \in MessageValues(a), dv \in DefaultValues(a) :
            /\ message = [attrs |-> WithAttr(MessageTo(1), a, mv).attrs,
                          content_subtype |-> subtype,
                          encoding |-> "None",
                          anymail_status |-> AnymailStatus]
            /\ addressed = RecipientEmails(WithAttr(MessageTo(1), a, mv))
            /\ send_defaults = IF dv = UNSET THEN <<>> ELSE [k \in {a} |-> dv]
    /\ settings = <<Dict(send_defaults), None>>
    /\ connection = "open"
    /\ pc = "payload_init"
    /\ idx = 1
    /\ num_sent = 0
    /\ created_session = FALSE
    /\ payload = NewPayload
    /\ exc = "none"
    /\ result = [how |-> "running", value |-> 0]
    /\ open_returns = <<FALSE>>
    /\ pre_send_outcome = "ok"
    /\ close_calls = 0
    /\ steps = <<"status_reset", "pre_send", "recipients">>
    /\ hist = <<>>
    /\ post_send_results = <<>>
    /\ rule_idx = 0

payload_frame ==
    <<config, connection, idx, num_sent, created_session, message, addressed, exc,
      result, open_returns, pre_send_outcome, close_calls, steps, hist,
      post_send_results>>

\* "self.init_payload()"
PayloadInit ==
    /\ pc = "payload_init"
    /\ payload' = init_payload(Backend)
    /\ pc' = IF payload'.exc # "none" THEN "payload_raised" ELSE "payload_rules"
    /\ UNCHANGED <<payload_frame, rule_idx>>

\* one iteration of "for attr, combiner, converter in message_attrs"
PayloadRule ==
    /\ pc = "payload_rules"
    /\ rule_idx < Len(message_attrs(provider))
    /\ payload' = ProcessRule(payload, message_attrs(provider)[rule_idx + 1],
                              message, send_defaults, Backend)
    /\ rule_idx' = rule_idx + 1
    /\ pc' = IF payload'.exc # "none" THEN "payload_raised"
             ELSE IF rule_idx' = Len(message_attrs(provider)) THEN "payload_built"
             ELSE "payload_rules"
    /\ UNCHANGED payload_frame

NextPayload ==
    \/ PayloadInit
    \/ PayloadRule

SpecPayload == InitPayload /\ [][NextPayload]_vars

\* the calls the payload construction has made for attr, by kind
CallsFor(attr, via) ==
    LET Match(c) == c.attr = attr /\ c.via = via
    IN SelectSeq(payload.calls, Match)

AnyCallFor(attr) == \E i \in DOMAIN payload.calls : payload.calls[i].attr = attr

\* rule i of the provider's rule list has been processed
Processed(i) == i <= rule_idx

\* C10: for every rule whose combiner is "last", once the rule is processed:
\* the value handed to the converter, and after conversion to the setter, is
\* the message's value when the message has one, else the default when there
\* is one; when both are absent neither converter nor setter is called.
C10_OverrideStrategy ==
    \A i \in 1..Len(message_attrs(provider)) :
        LET rule == message_attrs(provider)[i]
            mv == getattr(message, rule.attr)
            dv == DefaultsGet(send_defaults, rule.attr)
            chosen == IF mv # UNSET THEN mv ELSE dv
            setter == SetterName(rule.attr, message)
        IN (Processed(i) /\ rule.combiner = "last")
              => IF chosen = UNSET
                 THEN ~AnyCallFor(rule.attr)
                 ELSE /\ CallsFor(rule.attr, "converter") =
                            IF rule.converter = "None" THEN <<>>
                            ELSE <<Call(rule.attr, rule.converter, chosen, "converter")>>
                      /\ IF setter \in BasePayloadMethods \cup provider.implements
                         THEN CallsFor(rule.attr, "rule") =
                                <<Call(rule.attr, setter,
                                       Convert(rule.converter, chosen, message), "rule")>>
                         ELSE /\ CallsFor(rule.attr, "rule") = <<>>
                              /\ payload.exc = "AttributeError"

C10_Witness ==
    /\ pc = "payload_built"
    /\ getattr(message, "send_at") = UNSET
    /\ DefaultsGet(send_defaults, "send_at") = Date("2024-03-01")
    /\ CallsFor("send_at", "rule") =
          <<Call("send_at", "set_send_at",
                 DateTime("2024-03-01", "00:00", "+02:00"), "rule")>>

\* the setter of the rule exists on the provider's payload class
SetterExists(rule) ==
    SetterName(rule.attr, message) \in BasePayloadMethods \cup provider.implements

\* C11: for every processed rule whose setter exists, the setter is invoked
\* exactly when the value read, combined with the default and converted is
\* not UNSET: an UNSET value causes no converter call and no setter call, any
\* other value (an empty list, an empty mapping, an empty text and False
\* included) is handed to the setter as it is; a rule invokes its setter at
\* most once, and a rule not yet processed has invoked nothing.
C11_UnsetSentinel ==
    \A i \in 1..Len(message_attrs(provider)) :
        LET rule == message_attrs(provider)[i]
            final == ConvertedValue(rule, message, send_defaults)
        IN /\ Len(CallsFor(rule.attr, "rule")) <= 1
           /\ ~Processed(i) => ~AnyCallFor(rule.attr)
           /\ (Processed(i) /\ SetterExists(rule))
                 => IF final = UNSET
                    THEN ~AnyCallFor(rule.attr)
                    ELSE CallsFor(rule.attr, "rule") =
                            <<Call(rule.attr, SetterName(rule.attr, message),
                                   final, "rule")>>

C11_Witness ==
    /\ pc = "payload_built"
    /\ provider = FullProvider
    /\ getattr(message, "tags") = List(<<>>)
    /\ send_defaults = <<>>
    /\ CallsFor("tags", "rule") = <<Call("tags", "set_tags", List(<<>>), "rule")>>
    /\ CallsFor("cc", "rule") = <<Call("cc", "set_cc", List(<<>>), "rule")>>
    /\ ~AnyCallFor("metadata")

BodyRuleIndex == CHOOSE i \in 1..Len(base_message_attrs) : base_message_attrs[i].attr = "body"

\* the names of the methods called while the body rule was processed
BodyRuleCalls == {payload.calls[i].name : i \in {j \in DOMAIN payload.calls :
                                                   payload.calls[j].attr = "body"}}

\* C12: once the body rule is processed with a value, the combined and
\* converted body has been handed to set_html_body when the message's
\* content_subtype is html and to set_text_body otherwise, once; the other
\* body setter is not called for the body rule, and no method named set_body
\* is ever called.
C12_BodyRouting ==
    /\ \A i \in DOMAIN payload.calls : payload.calls[i].name # "set_body"
    /\ ~({"set_html_body", "set_text_body"} \subseteq BodyRuleCalls)
    /\ (Processed(BodyRuleIndex)
        /\ ConvertedValue(base_message_attrs[BodyRuleIndex], message, send_defaults) # UNSET)
          => LET final == force_non_lazy(
                              last(DefaultsGet(send_defaults, "body"), getattr(message, "body")))
                 routed == IF message.content_subtype = "html" THEN "set_html_body"
                           ELSE "set_text_body"
             IN /\ CallsFor("body", "rule") = <<Call("body", routed, final, "rule")>>
                /\ BodyRuleCalls = {"force_non_lazy", routed}

C12_Witness ==
    /\ pc = "payload_built"
    /\ message.content_subtype = "html"
    /\ getattr(message, "body") = Lazy("lazy text")
    /\ CallsFor("body", "rule") = <<Call("body", "set_html_body", Str("lazy text"), "rule")>>
    /\ BodyRuleCalls = {"force_non_lazy", "set_html_body"}

AlternativesRule ==
    base_message_attrs[CHOOSE i \in 1..Len(base_message_attrs) :
                          base_message_attrs[i].attr = "alternatives"]

AlternativesRuleIndex ==
    CHOOSE i \in 1..Len(base_message_attrs) : base_message_attrs[i].attr = "alternatives"

\* the alternatives handed to set_alternatives
FinalAlternatives == ConvertedValue(AlternativesRule, message, send_defaults)

\* what the inherited set_alternatives is to call, in list order
ExpectedAlternativeCalls ==
    [i \in 1..Len(FinalAlternatives.v) |->
        IF FinalAlternatives.v[i].v[2] = "text/html"
        THEN Call("alternatives", "set_html_body", FinalAlternatives.v[i].v[1],
                  "set_alternatives")
        ELSE Call("alternatives", "add_alternative", FinalAlternatives.v[i],
                  "set_alternatives")]

HtmlBodyCalls ==
    LET IsHtmlBody(c) == c.name = "set_html_body"
    IN SelectSeq(payload.calls, IsHtmlBody)

\* the html body a payload that stores what set_html_body receives holds
HtmlBodyHeld == HtmlBodyCalls[Len(HtmlBodyCalls)].arg

HtmlAlternatives == SelectSeq(FinalAlternatives.v, IsHtmlAlternative)

\* an exception left set_alternatives
AlternativesRaised == payload.exc # "none" /\ payload.attr = "alternatives"

\* C13: the inherited set_alternatives goes through the alternatives in list
\* order, calling set_html_body with the content of a text/html alternative
\* and add_alternative with any other one, up to the end of the list or to
\* the add_alternative call that raises; when it reaches the end and the
\* list has a text/html alternative, the html body last set on the payload
\* is the content of the last text/html alternative; no text/html
\* alternative is ever handed to add_alternative.
C13_Alternatives ==
    /\ \A i \in DOMAIN payload.calls :
          payload.calls[i].name = "add_alternative"
              => /\ payload.calls[i].arg.kind = "alt"
                 /\ payload.calls[i].arg.v[2] # "text/html"
    /\ (/\ Processed(AlternativesRuleIndex)
        /\ FinalAlternatives # UNSET
        /\ "set_alternatives" \notin provider.implements)
          => LET made == CallsFor("alternatives", "set_alternatives")
             IN IF AlternativesRaised
                THEN /\ made # <<>>
                     /\ Len(made) <= Len(ExpectedAlternativeCalls)
                     /\ made = SubSeq(ExpectedAlternativeCalls, 1, Len(made))
                     /\ made[Len(made)].name = "add_alternative"
                ELSE /\ made = ExpectedAlternativeCalls
                     /\ HtmlAlternatives # <<>>
                           => HtmlBodyHeld = HtmlAlternatives[Len(HtmlAlternatives)].v[1]

C13_Witness ==
    /\ pc = "payload_built"
    /\ getattr(message, "alternatives") = List(<<HtmlAlt("h1"), HtmlAlt("h2")>>)
    /\ DefaultsGet(send_defaults, "alternatives") = List(<<HtmlAlt("default")>>)
    /\ Len(CallsFor("alternatives", "set_alternatives")) = 3
    /\ HtmlBodyHeld = Str("h2")

(***************************************************************************)
(* AnymailBaseBackend.__init__: the settings are drawn by InitDefaults.    *)
(***************************************************************************)
DefaultKeys == {"tags", "track_clicks", "template_id"}

\* the values a layer of the settings may give to a key
LayerValues(k) ==
    CASE k = "tags" -> {List(<<Str("general")>>), List(<<Str("esp")>>)}
      [] k = "track_clicks" -> {Bool(FALSE), Bool(TRUE)}
      [] OTHER -> {Str("general-template"), Str("esp-template")}

\* the mappings a SEND_DEFAULTS setting may hold
Layers ==
    UNION {{f \in [K -> UNION {LayerValues(k) : k \in K}] :
               \A k \in K : f[k] \in LayerValues(k)} : K \in SUBSET DefaultKeys}

InitDefaults ==
    /\ fail_silently \in BOOLEAN
    /\ ignore_unsupported_features = FALSE
    /\ ignore_recipient_status = FALSE
    /\ settings \in {<<Dict(g), e>> : g \in Layers, e \in {None} \cup {Dict(f) : f \in Layers}}
    /\ send_defaults = <<>>
    /\ provider = MinimalProvider
    /\ connection = "closed"
    /\ pc = "backend_init"
    /\ idx = 0
    /\ num_sent = 0
    /\ created_session = FALSE
    /\ message = NoMessage
    /\ addressed = {}
    /\ payload = NewPayload
    /\ exc = "none"
    /\ result = [how |-> "running", value |-> 0]
    /\ open_returns = <<>>
    /\ pre_send_outcome = "none"
    /\ close_calls = 0
    /\ steps = <<>>
    /\ hist = <<>>
    /\ post_send_results = <<>>
    /\ rule_idx = 0

\* the SEND_DEFAULTS mapping once __init__ has run: update() is applied to
\* the copy made by "send_defaults = send_defaults.copy()"
GeneralAfterMerge(general, esp_send_defaults) == general

\* lines 27-34 of __init__
BackendInit ==
    /\ pc = "backend_init"
    /\ send_defaults' = MergeSendDefaults(settings[1], settings[2])
    /\ settings' = <<GeneralAfterMerge(settings[1], settings[2]), settings[2]>>
    /\ pc' = "start"
    /\ UNCHANGED <<fail_silently, ignore_unsupported_features, ignore_recipient_status,
                   provider, connection, idx, num_sent, created_session, message,
                   addressed, payload, exc, result, open_returns, pre_send_outcome,
                   close_calls, steps, hist, post_send_results, rule_idx>>

NextDefaults == BackendInit

SpecDefaults == InitDefaults /\ [][NextDefaults]_vars

\* what the overlay of the two layers gives for key k
Overlay(k) ==
    IF settings[2] # None /\ k \in DOMAIN settings[2].v THEN settings[2].v[k]
    ELSE IF k \in DOMAIN settings[1].v THEN settings[1].v[k]
    ELSE UNSET

\* C14: once __init__ has run, self.send_defaults gives for every key the
\* value of the provider-specific layer when that layer defines the key,
\* else the value of the general layer when that layer defines it, and has
\* no other key; when there is no provider-specific layer it is the general
\* layer; and __init__ leaves both layers of the settings as they were.
C14_DefaultsOverlay ==
    /\ [](pc = "start"
            => /\ \A k \in DefaultKeys : DefaultsGet(send_defaults, k) = Overlay(k)
               /\ DOMAIN send_defaults \subseteq DefaultKeys
               /\ \A k \in DOMAIN send_defaults : send_defaults[k] # UNSET
               /\ settings[2] = None => send_defaults = settings[1].v)
    /\ [][settings' = settings]_vars

C14_Witness ==
    /\ pc = "start"
    /\ settings[1] = Dict([k \in {"tags", "track_clicks"} |->
                              IF k = "tags" THEN List(<<Str("general")>>) ELSE Bool(TRUE)])
    /\ settings[2] = Dict([k \in {"tags", "template_id"} |->
                              IF k = "tags" THEN List(<<Str("esp")>>)
                              ELSE Str("esp-template")])
    /\ send_defaults = [k \in DefaultKeys |->
                           CASE k = "tags" -> List(<<Str("esp")>>)
                             [] k = "track_clicks" -> Bool(TRUE)
                             [] OTHER -> Str("esp-template")]

\* _send went through the status check for the loop variable: it was
\* reported sent, or AnymailRecipientsRefused was raised for it
CompletedProcessing ==
    /\ MessageFinished
    /\ LastEntry.steps[Len(LastEntry.steps)] = "status_check"

\* the addresses that have an entry in the message's recipient status
StatusEntries == DOMAIN message.anymail_status.recipients

StatusesInVocabulary ==
    \A e \in StatusEntries : message.anymail_status.recipients[e] \in ANYMAIL_STATUSES

AtMostOnce(st, name) ==
    \A i \in DOMAIN st : st[i] = name => \A j \in DOMAIN st : st[j] = name => j = i

\* position of name among the steps st, 0 if it is not there
StepIndex(st, name) ==
    IF StepsHave(st, name) THEN CHOOSE i \in DOMAIN st : st[i] = name ELSE 0

\* parse_recipient_status has returned for the loop variable
ResponseParsed == message.anymail_status.has_status

\* C16: post_send is sent exactly once for a message whose response was
\* parsed, with the recipient status attached, after the parse and right
\* before the status check, so also for a message AnymailRecipientsRefused is
\* then raised for; it is not sent for a message that was cancelled, had no
\* recipients, or failed at build, dispatch or parse.
C16_PostSendOnce ==
    /\ LET sent == StepIndex(steps, "post_send")
           checked == StepIndex(steps, "status_check")
       IN /\ AtMostOnce(steps, "post_send")
          /\ pc = "post_send" => (ResponseParsed /\ sent = 0)
          /\ sent # 0 <=> post_send_results # <<>>
          /\ (ResponseParsed /\ pc # "post_send") <=> sent # 0
          /\ sent # 0 => (sent > 1 /\ steps[sent - 1] = "parse")
          /\ checked # 0 => (sent # 0 /\ checked = sent + 1)
    /\ \A i \in DOMAIN hist :
          LET sent == StepIndex(hist[i].steps, "post_send")
          IN /\ AtMostOnce(hist[i].steps, "post_send")
             /\ hist[i].has_status <=> sent # 0
             /\ hist[i].exc = "AnymailRecipientsRefused"
                   => (sent # 0 /\ ~Finalized(hist[i]))
             /\ hist[i].steps[Len(hist[i].steps)] \in
                   {"pre_send", "recipients", "build", "post", "parse"}
                   => sent = 0

C16_Witness ==
    /\ MessageFinished
    /\ LastEntry.exc = "AnymailRecipientsRefused"
    /\ LastEntry.outcome = "suppressed"
    /\ post_send_results # <<>>
    /\ \A i \in DOMAIN post_send_results : post_send_results[i] = "ok"
    /\ steps = <<"status_reset", "pre_send", "recipients", "build", "post", "parse",
                 "post_send", "status_check">>
    /\ num_sent = 0

\* the receivers of post_send that raised, in registration order
RaisingReceivers == {i \in DOMAIN post_send_results : post_send_results[i] # "ok"}

ReceiverErrors == {ReceiverError(i) : i \in 1..NumReceivers}

\* C17: once post_send has been sent every registered receiver has been
\* called, whether or not others raised; when some raised, the error of the
\* first of them in registration order leaves the post-send step, the status
\* check is not performed and the message is not reported sent (the error is
\* not an AnymailError, so it leaves send_messages); when none raised the
\* post-send step raises nothing and the status check follows.
C17_PostSendErrors ==
    /\ post_send_results # <<>>
          => /\ DOMAIN post_send_results = 1..NumReceivers
             /\ IF RaisingReceivers # {}
                THEN LET first == CHOOSE i \in RaisingReceivers :
                                     \A j \in RaisingReceivers : i <= j
                     IN /\ MessageFinished
                        /\ steps[Len(steps)] = "post_send"
                        /\ LastEntry.exc = ReceiverError(first)
                        /\ LastEntry.outcome = "raised"
                        /\ exc = ReceiverError(first)
                        /\ num_sent = NumFinalized
                        /\ pc = "done" => result.how = "raised"
                ELSE /\ (pc = "status_check" \/ StepsHave(steps, "status_check"))
                     /\ MessageFinished => LastEntry.exc \notin ReceiverErrors
    /\ \A i \in DOMAIN hist :
          hist[i].exc \in ReceiverErrors
              => /\ hist[i].steps[Len(hist[i].steps)] = "post_send"
                 /\ i = Len(hist)
                 /\ post_send_results # <<>>

C17_Witness ==
    /\ pc = "done"
    /\ fail_silently
    /\ post_send_results = <<ReceiverError(1), ReceiverError(2)>>
    /\ Len(hist) = 2
    /\ hist[1].outcome = "sent"
    /\ LastEntry.exc = ReceiverError(1)
    /\ result.how = "raised"

\* the steps of _send, in the order of its statements
AllSteps ==
    <<"status_reset", "pre_send", "recipients", "build", "post", "parse", "post_send",
      "status_check">>

IsPrefix(s, t) == Len(s) <= Len(t) /\ s = SubSeq(t, 1, Len(s))

\* _send is at work on the loop variable
InSend == pc \in {"pre_send", "recipients", "build", "post", "parse", "post_send",
                  "status_check"}

\* the step _send is about to take comes right after the ones it has taken
NextStepInOrder == AllSteps[Len(steps) + 1] = pc

SequentialState ==
    /\ IsPrefix(steps, AllSteps)
    /\ \A i \in DOMAIN hist : hist[i].steps # <<>> /\ IsPrefix(hist[i].steps, AllSteps)
    /\ InSend => (Len(hist) = idx - 1 /\ steps # <<>> /\ NextStepInOrder)
    /\ pc \in {"loop", "finally", "done"} => Len(hist) = idx
    /\ MessageFinished => steps = LastEntry.steps

\* a step is taken for the message in hand, or the next message is taken up
\* once _send has finished with the one before
SequentialStep ==
    /\ idx' \in {idx, idx + 1}
    /\ idx' = idx + 1
          => (pc = "loop" /\ Len(hist) = idx /\ steps' = <<"status_reset">> /\ hist' = hist)
    /\ (idx' = idx /\ steps' # steps)
          => (InSend /\ steps' = Append(steps, pc))
    /\ hist' # hist
          => (InSend /\ hist' = Append(hist, hist'[Len(hist')])
              /\ hist'[Len(hist')].steps = steps' /\ ~InSend')

\* C18: the messages of a batch are processed one at a time in input order:
\* a step is taken for message k + 1 only when _send has finished with
\* message k; for one message the steps are a prefix of status reset,
\* pre_send, recipient check, payload build, post_to_esp, parse, post_send,
\* status check, each taken right after the one before it, and none is taken
\* once _send has returned or raised.
C18_Sequential ==
    /\ []SequentialState
    /\ [][SequentialStep]_vars

C18_Witness ==
    /\ pc = "post"
    /\ idx = 2
    /\ Len(hist) = 1
    /\ hist[1].steps = <<"status_reset", "pre_send", "recipients", "build", "post", "parse">>
    /\ hist[1].outcome = "suppressed"
    /\ steps = <<"status_reset", "pre_send", "recipients", "build">>

\* C19: with fail_silently off, the first AnymailError raised for a message
\* leaves send_messages: that message is the last one taken from the batch,
\* send_messages ends by raising that error and returns no count, whatever
\* num_sent had reached, and the messages reported sent before it keep their
\* response and recipient status.
C19_BatchAbort ==
    ~fail_silently
        => \A k \in DOMAIN hist :
              hist[k].exc \in AnymailErrors
                  => /\ k = Len(hist) /\ k = idx
                     /\ hist[k].outcome = "raised"
                     /\ pc \in {"finally", "done"}
                     /\ exc = hist[k].exc
                     /\ result.how # "returned"
                     /\ pc = "done" => result = [how |-> "raised", value |-> 0]
                     /\ num_sent = NumFinalized
                     /\ \A j \in 1..(k - 1) :
                           /\ hist[j].exc = "none"
                           /\ Finalized(hist[j])
                                 => /\ hist[j].outcome = "sent"
                                    /\ hist[j].attached
                                    /\ hist[j].esp_response # "None"
                                    /\ hist[j].has_status

C19_Witness ==
    /\ ~fail_silently
    /\ pc = "done"
    /\ Len(hist) = 2
    /\ hist[1].outcome = "sent"
    /\ hist[2].exc = "AnymailAPIError"
    /\ num_sent = 1
    /\ result = [how |-> "raised", value |-> 0]

\* the attributes in the order the claim gives: standard attributes,
\* extension attributes, provider-specific attributes
StandardAttrs ==
    <<"from_email", "to", "cc", "bcc", "subject", "reply_to", "extra_headers", "body",
      "alternatives", "attachments">>

ExtensionAttrs ==
    <<"metadata", "send_at", "tags", "track_clicks", "track_opens", "template_id",
      "merge_data", "merge_global_data", "esp_extra">>

ProviderAttrs ==
    [i \in 1..Len(provider.esp_message_attrs) |-> provider.esp_message_attrs[i].attr]

AttrOrder == StandardAttrs \o ExtensionAttrs \o ProviderAttrs

\* position of attr in AttrOrder; 0 for the call of init_payload
AttrPosition(attr) ==
    IF \E i \in DOMAIN AttrOrder : AttrOrder[i] = attr
    THEN CHOOSE i \in DOMAIN AttrOrder : AttrOrder[i] = attr
    ELSE 0

\* the calls of setters the rule loop has made
RuleCalls ==
    LET IsRuleCall(c) == c.via = "rule"
    IN SelectSeq(payload.calls, IsRuleCall)

FinalBody == ConvertedValue(base_message_attrs[BodyRuleIndex], message, send_defaults)

\* C20: the rule loop calls the setters in the fixed order of the rules,
\* standard attributes, then extension attributes, then provider-specific
\* ones, and everything a rule calls comes before what the next rule calls;
\* for an html message with a body and a text/html alternative, once the
\* alternatives rule is processed set_html_body has been called first with
\* the body and then with the content of every text/html alternative, so the
\* html body last set on the payload is the content of the last text/html
\* alternative, not the body.
C20_SetterOrder ==
    /\ \A i, j \in DOMAIN RuleCalls :
          i < j => AttrPosition(RuleCalls[i].attr) < AttrPosition(RuleCalls[j].attr)
    /\ \A i, j \in DOMAIN payload.calls :
          i < j => AttrPosition(payload.calls[i].attr) <= AttrPosition(payload.calls[j].attr)
    /\ (/\ Processed(AttrPosition("alternatives"))
        /\ ~AlternativesRaised
        /\ message.content_subtype = "html"
        /\ FinalBody # UNSET
        /\ FinalAlternatives # UNSET
        /\ HtmlAlternatives # <<>>
        /\ "set_alternatives" \notin provider.implements)
          => /\ HtmlBodyCalls =
                   <<Call("body", "set_html_body", FinalBody, "rule")>>
                   \o [i \in 1..Len(HtmlAlternatives) |->
                         Call("alternatives", "set_html_body", HtmlAlternatives[i].v[1],
                              "set_alternatives")]
             /\ HtmlBodyHeld = HtmlAlternatives[Len(HtmlAlternatives)].v[1]

C20_Witness ==
    /\ pc = "payload_built"
    /\ provider = EspProvider
    /\ message.content_subtype = "html"
    /\ getattr(message, "alternatives") = List(<<HtmlAlt("h1")>>)
    /\ send_defaults = <<>>
    /\ HtmlBodyCalls =
          << Call("body", "set_html_body", Str("body"), "rule"),
             Call("alternatives", "set_html_body", Str("h1"), "set_alternatives") >>
    /\ HtmlBodyHeld = Str("h1")

====
